---------------------------- MODULE Spec2Model ----------------------------
(***************************************************************************)
(* Model of src/utils.py: the Sentinel-2 grid builder script and its land  *)
(* filter union_query_strtree.                                             *)
(*                                                                         *)
(* Geometry is discretised: the plane is a row of NumCells cells, cell c    *)
(* being the closed box from x = c to x = c + 1.  An area is the set of    *)
(* cells it covers; a line lies strictly inside one cell.  Areas on        *)
(* neighbouring cells share an edge: they touch, so they intersect, and    *)
(* their union is one polygon.                                             *)
(***************************************************************************)
EXTENDS Integers, Sequences, FiniteSets

VARIABLES
    pc,           \* position of the run (or of the call, under SpecQuery)
    error,        \* type of the exception that ended the run, or "none"
    halted_at,    \* position at which the exception was raised
    kml,          \* rows of the tile grid source, as read
    gdf,          \* the grid table
    grid_file,    \* sentinel-2-grid.parquet
    land_highres, \* features of the land mask
    predicate,    \* predicate handed to union_query_strtree
    land,         \* array returned by union_query_strtree
    gdf_land,     \* the land-filtered grid table
    land_file     \* sentinel-2-grid_LAND.parquet

vars == <<pc, error, halted_at, kml, gdf, grid_file, land_highres,
          predicate, land, gdf_land, land_file>>

\* Bounds of the model.
NumCells == 3
MaxTiles == 2

Cells == 0 .. (NumCells - 1)

Min(S) == CHOOSE x \in S : \A y \in S : x <= y
Max(S) == CHOOSE x \in S : \A y \in S : x >= y
Range(s) == {s[k] : k \in 1 .. Len(s)}

RECURSIVE SetToSortedSeq(_)
SetToSortedSeq(S) ==
    IF S = {} THEN <<>>
    ELSE LET m == Min(S) IN <<m>> \o SetToSortedSeq(S \ {m})

\* Footprints a tile can have: the runs of neighbouring cells.
Footprints == {lo .. hi : lo \in Cells, hi \in Cells} \ {{}}

---------------------------------------------------------------------------
(* Metadata extraction: get_epsg, get_utm_wkt.                             *)

\* A description is None or a text, given as the list of its pieces between
\* '<b>' marks; a piece is what the two regular expressions capture in it:
\* font, the captures of <font COLOR="#008000">(.+?)</font> (strings of
\* characters), and mp, the captures of MULTIPOLYGON\(\(\((.+?)\)\)\)
\* (coordinate lists, well formed: <<lo, hi>>).  A character is its Unicode
\* code point.
Piece(font, mp) == [font |-> font, mp |-> mp]
Text == Piece(<<>>, <<>>)
Str(pieces) == [is_str |-> TRUE, pieces |-> pieces]
None == [is_str |-> FALSE, pieces |-> <<>>]
\* '326'
EpsgDigits == <<51, 50, 54>>
\* '\xa0+' ARABIC-INDIC DIGIT THREE '2_6\x0b', which int() reads as 326
EpsgLenient == <<160, 43, 1635, 50, 95, 54, 11>>
\* '3x'
EpsgNoNumber == <<51, 120>>

Description(kind, fp) ==
    LET e == Piece(<<EpsgDigits>>, <<>>)
        w == Piece(<<>>, <<<<Min(fp), Max(fp)>>>>)
    IN CASE kind = "good"     -> Str(<<Text, Text, e, Text, w, Text>>)
         [] kind = "lenient_epsg" ->
               Str(<<Text, Text, Piece(<<EpsgLenient>>, <<>>), Text, w, Text>>)
         [] kind = "no_epsg"  -> Str(<<Text, Text, Text, Text, w, Text>>)
         [] kind = "no_wkt"   -> Str(<<Text, Text, e, Text, Text, Text>>)
         [] kind = "short"    -> Str(<<Text, Text>>)
         [] kind = "bad_epsg" ->
               Str(<<Text, Text, Piece(<<EpsgNoNumber>>, <<>>), Text, w, Text>>)
         [] kind = "bad_wkt"  ->
               Str(<<Text, Text, e, Text, Piece(<<>>, <<<<Min(fp)>>>>), Text>>)
         [] kind = "none"     -> None

DescriptionKinds ==
    {"good", "lenient_epsg", "no_epsg", "no_wkt", "short", "bad_epsg", "bad_wkt", "none"}

Ok(v) == [raised |-> "none", value |-> v]
Raise(e) == [raised |-> e, value |-> 0]

\* row.description.split('<b>'): None has no split.
split(description) ==
    IF description.is_str THEN Ok(description.pieces) ELSE Raise("AttributeError")

\* int() of a string: the whitespace around it is stripped, a sign may
\* lead, and the rest must be decimal digits of any script, single
\* underscores allowed between two digits, no more digits than the
\* interpreter's limit; else ValueError.  Whitespace and decimal digits are
\* those of the interpreter's Unicode tables (Python 3.11, Unicode 14).
Whitespace ==
    (9 .. 13) \cup {32, 133, 160, 5760} \cup (8192 .. 8202)
        \cup {8232, 8233, 8239, 8287, 12288}
\* The code point of the zero of every decimal digit block; the digits one
\* to nine follow it.
DecimalZeros ==
    {48, 1632, 1776, 1984, 2406, 2534, 2662, 2790, 2918, 3046, 3174, 3302,
     3430, 3558, 3664, 3792, 3872, 4160, 4240, 6112, 6160, 6470, 6608, 6784,
     6800, 6992, 7088, 7232, 7248, 42528, 43216, 43264, 43472, 43504, 43600,
     44016, 65296, 66720, 68912, 69734, 69872, 69942, 70096, 70384, 70736,
     70864, 71248, 71360, 71472, 71904, 72016, 72784, 73040, 73120, 92768,
     92864, 93008, 120782, 120792, 120802, 120812, 120822, 123200, 123632,
     125264, 130032}
Digits == UNION {z .. (z + 9) : z \in DecimalZeros}
DigitValue(c) == c - (CHOOSE z \in DecimalZeros : c \in z .. (z + 9))
\* '+', '-' and '_'
PlusSign == 43
MinusSign == 45
Underscore == 95
IntMaxStrDigits == 4300

RECURSIVE lstrip(_)
lstrip(s) == IF Len(s) > 0 /\ Head(s) \in Whitespace THEN lstrip(Tail(s)) ELSE s
RECURSIVE rstrip(_)
rstrip(s) ==
    IF Len(s) > 0 /\ s[Len(s)] \in Whitespace
    THEN rstrip(SubSeq(s, 1, Len(s) - 1)) ELSE s

RECURSIVE digits_value(_)
digits_value(d) ==
    IF Len(d) = 0 THEN 0
    ELSE 10 * digits_value(SubSeq(d, 1, Len(d) - 1)) + DigitValue(d[Len(d)])

int(s) ==
    LET t == rstrip(lstrip(s))
        signed == Len(t) > 0 /\ t[1] \in {PlusSign, MinusSign}
        body == IF signed THEN Tail(t) ELSE t
        digits == SelectSeq(body, LAMBDA c : c \in Digits)
        wellformed ==
            /\ Len(body) > 0
            /\ body[1] \in Digits
            /\ body[Len(body)] \in Digits
            /\ \A k \in 1 .. Len(body) : body[k] \in Digits \cup {Underscore}
            /\ \A k \in 1 .. (Len(body) - 1) : ~(body[k] = Underscore /\ body[k + 1] = Underscore)
    IN  IF ~wellformed \/ Len(digits) > IntMaxStrDigits THEN Raise("ValueError")
        ELSE IF signed /\ t[1] = MinusSign THEN Ok(0 - digits_value(digits))
        ELSE Ok(digits_value(digits))

get_epsg_default(row) ==
    LET parts == split(row.description)
    IN  IF parts.raised # "none" THEN parts
        ELSE IF Len(parts.value) < 3 \/ Len(parts.value[3].font) = 0 THEN Ok(0)
        ELSE int(parts.value[3].font[1])

get_epsg(row) ==
    LET parts == split(row.description)
    IN  IF parts.raised # "none" THEN parts
        ELSE IF Len(parts.value) < 3 THEN Raise("IndexError")
        ELSE LET m == parts.value[3].font
             IN IF Len(m) = 0 THEN Raise("IndexError") ELSE int(m[1])

get_utm_wkt(row) ==
    LET parts == split(row.description)
    IN  IF parts.raised # "none" THEN parts
        ELSE IF Len(parts.value) < 2 THEN Raise("IndexError")
        ELSE LET m == parts.value[Len(parts.value) - 1].mp
             IN IF Len(m) = 0 THEN Raise("IndexError")
                ELSE Ok([type |-> "POLYGON", coords |-> m[1]])

\* wkt.loads(x).bounds: the text must parse as a polygon.
utm_bounds(w) ==
    IF Len(w.coords) # 2 THEN Raise("GEOSException")
    ELSE Ok(<<w.coords[1], w.coords[2]>>)

center_from_geoms(geoms) ==
    LET pts == SelectSeq(geoms, LAMBDA g : g.type = "Point")
    IN IF Len(pts) = 0 THEN Raise("IndexError") ELSE Ok(pts[1])

multipolygon_from_geoms(geoms) ==
    LET polys == SelectSeq(geoms, LAMBDA g : g.type # "Point")
    IN IF Len(polys) = 1
       THEN [type |-> "Polygon", cells |-> polys[1].cells]
       ELSE [type |-> "MultiPolygon",
             cells |-> UNION {polys[k].cells : k \in 1 .. Len(polys)}]

\* A feature of the grid source: name, description, and a collection of the
\* footprint polygon and the centre point.
KmlRow(i, fp, kind) ==
    [tile |-> i,
     description |-> Description(kind, fp),
     geometry |-> << [type |-> "Polygon", cells |-> fp],
                     [type |-> "Point", cells |-> {Min(fp)}] >>]

\* The grid source with the footprint and the kind of description of each
\* of its rows given by f.
KmlFile(n, f) == [i \in 1 .. n |-> KmlRow(i - 1, f[i][1], f[i][2])]

\* The exception of the first element of a column that raised, or "none":
\* apply works through the rows in order and stops at the first exception.
FirstRaised(col) ==
    LET bad == {k \in 1 .. Len(col) : col[k].raised # "none"}
    IN  IF bad = {} THEN "none" ELSE col[Min(bad)].raised

\* The table after lines 131-132, 133, 134 and 135-136, given the columns
\* computed so far.
WithCenter(t, c) ==
    [k \in 1 .. Len(t) |->
        [tile |-> t[k].tile, description |-> t[k].description,
         geometry |-> multipolygon_from_geoms(t[k].geometry),
         center |-> c[k].value]]
WithEpsg(t, e) ==
    [k \in 1 .. Len(t) |->
        [tile |-> t[k].tile, description |-> t[k].description,
         geometry |-> t[k].geometry, center |-> t[k].center,
         epsg |-> e[k].value]]
WithUtmWkt(t, w) ==
    [k \in 1 .. Len(t) |->
        [tile |-> t[k].tile, description |-> t[k].description,
         geometry |-> t[k].geometry, center |-> t[k].center,
         epsg |-> t[k].epsg, utm_wkt |-> w[k].value]]
WithBounds(t, b) ==
    [k \in 1 .. Len(t) |->
        [tile |-> t[k].tile, geometry |-> t[k].geometry,
         center |-> t[k].center, epsg |-> t[k].epsg,
         utm_wkt |-> t[k].utm_wkt, utm_bounds |-> b[k].value]]

\* Lines 131-136 applied to one well-formed row.
BuiltRow(row) ==
    [tile |-> row.tile,
     geometry |-> multipolygon_from_geoms(row.geometry),
     center |-> center_from_geoms(row.geometry).value,
     epsg |-> get_epsg(row).value,
     utm_wkt |-> get_utm_wkt(row).value,
     utm_bounds |-> utm_bounds(get_utm_wkt(row).value).value]

---------------------------------------------------------------------------
(* Geometry library: shapely.union_all, STRtree, numpy.                    *)

\* A feature of a geometry file: an area covering one cell, or a line lying
\* strictly inside one cell.
PolygonFeatures == {[kind |-> "Polygon", cell |-> c] : c \in Cells}
LineFeatures ==    {[kind |-> "LineString", cell |-> c] : c \in Cells}

\* The maximal runs of neighbouring cells of S, from left to right.
RECURSIVE RunFrom(_, _)
RunFrom(S, c) == IF c \in S THEN {c} \cup RunFrom(S, c + 1) ELSE {}
Components(S) ==
    LET starts == SetToSortedSeq({c \in S : (c - 1) \notin S})
    IN  [k \in 1 .. Len(starts) |-> RunFrom(S, starts[k])]

Geom(type, poly, line) == [type |-> type, poly |-> poly, line |-> line]
GCells(g) == g.poly \cup g.line

\* shapely.union_all: areas on neighbouring cells dissolve into one polygon,
\* a line covered by an area disappears in it, and the type of the result
\* follows from what is left.
union_all(features) ==
    LET poly == {f.cell : f \in {x \in features : x.kind = "Polygon"}}
        line == {f.cell : f \in {x \in features : x.kind = "LineString"}} \ poly
        n == Len(Components(poly))
    IN  CASE poly = {} /\ line = {} -> Geom("GeometryCollection", {}, {})
          [] poly # {} /\ line = {} ->
                Geom(IF n = 1 THEN "Polygon" ELSE "MultiPolygon", poly, {})
          [] poly = {} /\ line # {} ->
                Geom(IF Cardinality(line) = 1 THEN "LineString"
                     ELSE "MultiLineString", {}, line)
          [] OTHER -> Geom("GeometryCollection", poly, line)

\* The classes of shapely.Geometry.
GeometryTypes == {"Point", "LineString", "LinearRing", "Polygon", "MultiPoint",
                  "MultiLineString", "MultiPolygon", "GeometryCollection"}

\* MultiPolygon.geoms
geoms_of(g) ==
    LET comps == Components(g.poly)
    IN  [k \in 1 .. Len(comps) |-> Geom("Polygon", comps[k], {})]

Geometries_polygonal_only(geometry) ==
    IF geometry.type = "MultiPolygon" THEN Ok(geoms_of(geometry))
    ELSE IF geometry.type = "Polygon" THEN Ok(<<geometry>>)
    ELSE Raise("ValueError")

\* Lines 87-92: the list of query geometries, or the ValueError.
Geometries(geometry) ==
    IF geometry.type = "MultiPolygon" THEN Ok(geoms_of(geometry))
    ELSE IF geometry.type \in GeometryTypes THEN Ok(<<geometry>>)
    ELSE Raise("ValueError")

\* Two cells share ground: they are the same cell or neighbours, which
\* share an edge.
Touch(a, b) == (a - b) \in {-1, 0, 1}

\* predicate(query geometry, tree geometry); the tree geometry is an area,
\* given by its cells.  Geometries that only touch intersect.
Holds(pred, g, cells) ==
    CASE pred = "intersects" ->
              \/ \E a \in g.poly, b \in cells : Touch(a, b)
              \/ g.line \cap cells # {}
      [] pred = "contains"   -> cells # {} /\ cells \subseteq g.poly
      [] pred = "within"     -> GCells(g) # {} /\ GCells(g) \subseteq cells

Predicates == {"intersects", "contains", "within"}

\* STRtree(geoms): the packing fixes the order in which the tree holds the
\* items, which need not be the order of insertion.
Permutations ==
    [n \in 0 .. MaxTiles |->
        {p \in [1 .. n -> 0 .. (n - 1)] : \A a, b \in 1 .. n : a # b => p[a] # p[b]}]
TreeOrders(n) == Permutations[n]

Hull(S) == IF S = {} THEN {} ELSE Min(S) .. Max(S)

tree_query_envelope(tree, geoms, g, pred) ==
    SelectSeq(tree, LAMBDA i :
        \E a \in Hull(GCells(g)), b \in Hull(geoms[i + 1].cells) : Touch(a, b))

\* tree.query(geometry, predicate): the positions of the items that satisfy
\* the predicate, in the order of the tree.
tree_query(tree, geoms, g, pred) ==
    SelectSeq(tree, LAMBDA i : Holds(pred, g, geoms[i + 1].cells))

RECURSIVE np_concatenate(_)
np_concatenate(arrays) ==
    IF Len(arrays) = 0 THEN <<>>
    ELSE Head(arrays) \o np_concatenate(Tail(arrays))

\* The ascending arrangement of a sequence, duplicates kept.
RECURSIVE np_sort(_)
np_sort(a) ==
    IF Len(a) = 0 THEN <<>>
    ELSE LET m == Min(Range(a))
             k == CHOOSE j \in 1 .. Len(a) : a[j] = m
         IN  <<m>> \o np_sort(SubSeq(a, 1, k - 1) \o SubSeq(a, k + 1, Len(a)))

np_unique(a) == SetToSortedSeq(Range(a))

\* Lines 94-100: one query of the tree per query geometry.
all_indices_of(tree, geoms, geometries, pred) ==
    [k \in 1 .. Len(geometries) |-> tree_query(tree, geoms, geometries[k], pred)]

union_query_strtree_first_only(g, gdf_to_query, pred, tree) ==
    LET gs == Geometries(union_all(gdf_to_query))
        geoms == [k \in 1 .. Len(g) |-> g[k].geometry]
    IN  IF gs.raised # "none" THEN gs
        ELSE Ok(all_indices_of(tree, geoms, gs.value, pred)[1])

union_query_strtree_no_empty(g, gdf_to_query, pred, tree) ==
    LET gs == Geometries(union_all(gdf_to_query))
        geoms == [k \in 1 .. Len(g) |-> g[k].geometry]
        all_indices == all_indices_of(tree, geoms, gs.value, pred)
    IN  IF gs.raised # "none" THEN gs
        ELSE IF np_concatenate(all_indices) = <<>> THEN Raise("ValueError")
        ELSE IF Len(all_indices) = 1 THEN Ok(all_indices[1])
        ELSE Ok(np_unique(np_concatenate(all_indices)))

\* union_query_strtree(gdf, gdf_to_query, predicate), with the order `tree`
\* in which the STRtree built at line 96 holds the geometries of gdf.  Both
\* frames are in EPSG:4326 already, so to_crs leaves the coordinates alone.
union_query_strtree(g, gdf_to_query, pred, tree) ==
    LET gs == Geometries(union_all(gdf_to_query))
        geoms == [k \in 1 .. Len(g) |-> g[k].geometry]
        all_indices == all_indices_of(tree, geoms, gs.value, pred)
    IN  IF gs.raised # "none" THEN gs
        ELSE IF Len(all_indices) = 1 THEN Ok(all_indices[1])
        ELSE Ok(np_unique(np_concatenate(all_indices)))

\* gdf.iloc[land].reset_index(drop=True): the rows at the given positions,
\* in the order given, numbered anew.
iloc(g, positions) == [k \in 1 .. Len(positions) |-> g[positions[k] + 1]]

---------------------------------------------------------------------------
(* The script, lines 122-150.                                              *)

NoFile == [written |-> FALSE, rows |-> <<>>]
Parquet(rows) == [written |-> TRUE, rows |-> rows]

\* The land mask file holds polygon features.
LandFiles == SUBSET PolygonFeatures

Init ==
    /\ pc = "start"
    /\ error = "none"
    /\ halted_at = "none"
    /\ kml = <<>>
    /\ gdf = <<>>
    /\ grid_file = NoFile
    /\ land_highres = {}
    /\ predicate = "intersects"
    /\ land = <<>>
    /\ gdf_land = <<>>
    /\ land_file = NoFile

Halt(e) ==
    /\ pc' = "failed"
    /\ error' = e
    /\ halted_at' = pc

\* Lines 125-129: read the grid source; the download may fail.
ReadGrid ==
    /\ pc = "start"
    /\ \/ \E n \in 0 .. MaxTiles :
          \E f \in [1 .. n -> Footprints \X DescriptionKinds] :
             /\ kml' = KmlFile(n, f)
             /\ gdf' = KmlFile(n, f)
             /\ pc' = "grid_read"
             /\ UNCHANGED <<error, halted_at>>
       \/ /\ Halt("NetworkError")
          /\ UNCHANGED <<kml, gdf>>
    /\ UNCHANGED <<grid_file, land_highres, predicate, land, gdf_land, land_file>>

\* Lines 131-136: the derived columns, one line after the other over the
\* whole table; the first exception ends the run with the table as the
\* lines before it left it.  On a table without rows apply(..., axis=1)
\* returns a frame, which line 133 cannot assign to one column: ValueError.
BuildGrid ==
    /\ pc = "grid_read"
    /\ LET n == Len(gdf)
           c == [k \in 1 .. n |-> center_from_geoms(gdf[k].geometry)]
           t132 == WithCenter(gdf, c)
           e == [k \in 1 .. n |-> get_epsg(t132[k])]
           t133 == WithEpsg(t132, e)
           w == [k \in 1 .. n |-> get_utm_wkt(t133[k])]
           t134 == WithUtmWkt(t133, w)
           b == [k \in 1 .. n |-> utm_bounds(t134[k].utm_wkt)]
       IN  IF FirstRaised(c) # "none"
           THEN Halt(FirstRaised(c)) /\ UNCHANGED gdf
           ELSE IF n = 0
           THEN Halt("ValueError") /\ gdf' = t132
           ELSE IF FirstRaised(e) # "none"
           THEN Halt(FirstRaised(e)) /\ gdf' = t132
           ELSE IF FirstRaised(w) # "none"
           THEN Halt(FirstRaised(w)) /\ gdf' = t133
           ELSE IF FirstRaised(b) # "none"
           THEN Halt(FirstRaised(b)) /\ gdf' = t134
           ELSE /\ gdf' = WithBounds(t134, b)
                /\ pc' = "grid_built"
                /\ UNCHANGED <<error, halted_at>>
    /\ UNCHANGED <<kml, grid_file, land_highres, predicate, land, gdf_land, land_file>>

SaveGrid_skipped ==
    /\ pc = "grid_built"
    /\ pc' = "grid_saved"
    /\ UNCHANGED <<error, halted_at, kml, gdf, grid_file, land_highres,
                   predicate, land, gdf_land, land_file>>

\* Lines 138-139.
SaveGrid ==
    /\ pc = "grid_built"
    /\ grid_file' = Parquet(gdf)
    /\ pc' = "grid_saved"
    /\ UNCHANGED <<error, halted_at, kml, gdf, land_highres, predicate, land,
                   gdf_land, land_file>>

\* Line 143: read the land mask; the download may fail.
ReadLand ==
    /\ pc = "grid_saved"
    /\ \/ \E file \in LandFiles :
             /\ land_highres' = file
             /\ pc' = "land_read"
             /\ UNCHANGED <<error, halted_at>>
       \/ /\ Halt("NetworkError")
          /\ UNCHANGED land_highres
    /\ UNCHANGED <<kml, gdf, grid_file, predicate, land, gdf_land, land_file>>

\* Lines 145-147.
LandFilter ==
    /\ pc = "land_read"
    /\ \E tree \in TreeOrders(Len(gdf)) :
          LET r == union_query_strtree(gdf, land_highres, predicate, tree)
          IN  IF r.raised # "none"
              THEN /\ Halt(r.raised)
                   /\ UNCHANGED <<land, gdf_land>>
              ELSE /\ land' = r.value
                   /\ gdf_land' = iloc(gdf, r.value)
                   /\ pc' = "land_filtered"
                   /\ UNCHANGED <<error, halted_at>>
    /\ UNCHANGED <<kml, gdf, grid_file, land_highres, predicate, land_file>>

\* Lines 149-150.
SaveLand ==
    /\ pc = "land_filtered"
    /\ land_file' = Parquet(gdf_land)
    /\ pc' = "done"
    /\ UNCHANGED <<error, halted_at, kml, gdf, grid_file, land_highres,
                   predicate, land, gdf_land>>

Next == ReadGrid \/ BuildGrid \/ SaveGrid \/ ReadLand \/ LandFilter \/ SaveLand

Spec == Init /\ [][Next]_vars

---------------------------------------------------------------------------
(* union_query_strtree on its own, for every grid, mask and predicate.     *)

\* A grid table built from well-formed rows with the footprints f.
Grid(n, f) == [i \in 1 .. n |-> BuiltRow(KmlRow(i - 1, f[i], "good"))]

\* The collections to query with: each cell holds an area, a line or nothing.
QueryFiles ==
    {m \in SUBSET (PolygonFeatures \cup LineFeatures) :
        \A f, h \in m : f.cell = h.cell => f = h}

InitQuery ==
    /\ pc = "call"
    /\ error = "none"
    /\ halted_at = "none"
    /\ kml = <<>>
    /\ \E n \in 0 .. MaxTiles : \E f \in [1 .. n -> Footprints] : gdf = Grid(n, f)
    /\ grid_file = NoFile
    /\ land_highres \in QueryFiles
    /\ predicate \in Predicates
    /\ land = <<>>
    /\ gdf_land = <<>>
    /\ land_file = NoFile

CallUnionQuery ==
    /\ pc = "call"
    /\ \E tree \in TreeOrders(Len(gdf)) :
          LET r == union_query_strtree(gdf, land_highres, predicate, tree)
          IN  IF r.raised # "none"
              THEN /\ pc' = "raised"
                   /\ error' = r.raised
                   /\ UNCHANGED land
              ELSE /\ pc' = "returned"
                   /\ land' = r.value
                   /\ UNCHANGED error
    /\ UNCHANGED <<halted_at, kml, gdf, grid_file, land_highres, predicate,
                   gdf_land, land_file>>

NextQuery == CallUnionQuery

SpecQuery == InitQuery /\ [][NextQuery]_vars

---------------------------------------------------------------------------
(* Properties.                                                             *)

NumTiles == Len(gdf)
TileCells(i) == gdf[i + 1].geometry.cells
\* The tile at index i shares ground with a feature of the land mask: with
\* an area on one of its cells or on a neighbour of them (a shared edge), or
\* with a line inside one of its cells.
FeatureMeets(f, cells) ==
    IF f.kind = "Polygon" THEN \E b \in cells : (f.cell - b) \in {-1, 0, 1}
    ELSE f.cell \in cells
OnLand(i) == \E f \in land_highres : FeatureMeets(f, TileCells(i))
Count(a, x) == Cardinality({k \in 1 .. Len(a) : a[k] = x})
StrictlyAscending(a) == \A k \in 1 .. (Len(a) - 1) : a[k] < a[k + 1]
Union == union_all(land_highres)
Parts == geoms_of(Union)
PartsMatching(i) == {k \in 1 .. Len(Parts) : Holds(predicate, Parts[k], TileCells(i))}

\* C1 (completeness): after a call with predicate 'intersects', every tile
\* whose footprint shares ground with some feature of the land mask has its
\* index in the returned array exactly once.
C1_Completeness ==
    (pc = "returned" /\ predicate = "intersects") =>
        \A i \in 0 .. (NumTiles - 1) :
            OnLand(i) => Count(land, i) = 1

\* C1 witness: the land union is a multi-polygon and one tile, reaching over
\* two of its polygons, is returned once.
C1_Witness ==
    /\ pc = "returned"
    /\ predicate = "intersects"
    /\ Union.type = "MultiPolygon"
    /\ \E i \in 0 .. (NumTiles - 1) :
          Cardinality(PartsMatching(i)) = 2 /\ Count(land, i) = 1

\* C2 (soundness): after a call with predicate 'intersects', every returned
\* index is a position of the grid and the tile there shares ground with at
\* least one land feature.
C2_Soundness ==
    (pc = "returned" /\ predicate = "intersects") =>
        \A k \in 1 .. Len(land) :
            /\ land[k] \in 0 .. (NumTiles - 1)
            /\ OnLand(land[k])

\* C2 witness: a call over two tiles and a non-empty land mask that returns
\* the one and leaves out the other, which lies apart from the land.
C2_Witness ==
    /\ pc = "returned"
    /\ predicate = "intersects"
    /\ land_highres # {}
    /\ NumTiles = 2
    /\ Len(land) = 1
    /\ \E i \in 0 .. (NumTiles - 1) : Count(land, i) = 0 /\ ~OnLand(i)

\* C3 (order invariant): the returned array is strictly ascending on every
\* path, the single-geometry path included.
C3_OrderInvariant ==
    pc = "returned" => StrictlyAscending(land)

\* C4 (multi-part consistency): when the land union is a multi-polygon, the
\* returned indices are exactly the tiles that satisfy the predicate against
\* at least one of its polygons, each reported once, for every predicate.
C4_MultiPartConsistency ==
    (pc = "returned" /\ Union.type = "MultiPolygon") =>
        /\ Range(land) = {i \in 0 .. (NumTiles - 1) : PartsMatching(i) # {}}
        /\ \A i \in Range(land) : Count(land, i) = 1

\* C4 witness: a multi-polygon land union, one returned tile matched by a
\* single polygon only and another matched by two polygons.
C4_Witness ==
    /\ pc = "returned"
    /\ Union.type = "MultiPolygon"
    /\ \E i, j \in Range(land) :
          /\ Cardinality(PartsMatching(i)) = 1
          /\ Cardinality(PartsMatching(j)) = 2

\* C5 (degenerate cases): a call on an empty grid returns an empty array, and
\* so does a call whose land union is a single polygon that no tile
\* intersects; neither raises.
C5_Degenerate ==
    pc # "call" =>
        /\ NumTiles = 0 => (pc = "returned" /\ land = <<>>)
        /\ (/\ Union.type = "Polygon"
            /\ \A i \in 0 .. (NumTiles - 1) : ~OnLand(i))
           => (pc = "returned" /\ land = <<>>)

\* C5 witness: a grid of two tiles and a single land polygon apart from both.
C5_Witness ==
    /\ pc = "returned"
    /\ NumTiles = 2
    /\ Union.type = "Polygon"
    /\ \A i \in 0 .. (NumTiles - 1) : ~OnLand(i)
    /\ land = <<>>

\* C6 as stated: a land union that is a geometry collection or a multi-part
\* geometry other than a multi-polygon makes the call raise ValueError.
C6_RaisesOnOtherMultiPart ==
    (pc # "call" /\ Union.type \in {"GeometryCollection", "MultiLineString"})
        => (pc = "raised" /\ error = "ValueError")

\* C6 as amended: the call raises for no shapely geometry; a land union that
\* is not a multi-polygon, a geometry collection or a multi-line included, is
\* queried whole as one query geometry and the call returns the tiles that
\* satisfy the predicate against it.
C6_EveryGeometryIsQueried ==
    pc # "call" =>
        /\ pc = "returned"
        /\ error = "none"
        /\ Union.type # "MultiPolygon" =>
              /\ Range(land) = {i \in 0 .. (NumTiles - 1) :
                                   Holds(predicate, Union, TileCells(i))}
              /\ \A i \in Range(land) : Count(land, i) = 1

\* C6 witness: a geometry collection of an area and a line, and a call that
\* returned a tile for it.
C6_Witness ==
    /\ pc = "returned"
    /\ Union.type = "GeometryCollection"
    /\ Union.poly # {}
    /\ Union.line # {}
    /\ land # <<>>

LandStageRan ==
    pc \in {"land_filtered", "done"} \/ (pc = "failed" /\ halted_at = "land_read")
ZeroMatch ==
    /\ LandStageRan
    /\ NumTiles > 0
    /\ \A i \in 0 .. (NumTiles - 1) : ~OnLand(i)

\* C7 as stated: a run whose spatial query matches no tile fails and never
\* writes the land-filtered file.
C7_ZeroMatchTerminates ==
    ZeroMatch => (pc # "done" /\ ~land_file.written)

\* C7 as amended: a run whose spatial query matches no tile does not fail in
\* the land filter: the filter returns an empty array, no row is selected,
\* the write step is reached and writes a land-filtered file of no rows.
C7_ZeroMatchWritesEmptyFile ==
    ZeroMatch =>
        /\ pc # "failed"
        /\ land = <<>>
        /\ gdf_land = <<>>
        /\ pc = "land_filtered" => ENABLED SaveLand
        /\ pc = "done" => land_file = Parquet(<<>>)

\* C7 witness: a finished run over two tiles and a non-empty land mask that
\* touches neither, with an empty land-filtered file written.
C7_Witness ==
    /\ pc = "done"
    /\ ZeroMatch
    /\ NumTiles = 2
    /\ land_highres # {}
    /\ land_file = Parquet(<<>>)

\* C8 (row order): the land-filtered table holds the grid rows at the
\* selected indices in ascending order of index, each once, and so does the
\* file written from it.
C8_RowOrderPreserved ==
    pc \in {"land_filtered", "done"} =>
        /\ gdf_land = iloc(gdf, SetToSortedSeq(Range(land)))
        /\ pc = "done" => land_file.rows = iloc(gdf, SetToSortedSeq(Range(land)))

HasText(row) == row.description.is_str
Pieces(row) == row.description.pieces
EpsgPatternPresent(row) ==
    HasText(row) /\ Len(Pieces(row)) >= 3 /\ Pieces(row)[3].font # <<>>
WktPatternPresent(row) ==
    /\ HasText(row)
    /\ Len(Pieces(row)) >= 2
    /\ Pieces(row)[Len(Pieces(row)) - 1].mp # <<>>
EpsgNotNumeric(row) ==
    EpsgPatternPresent(row) /\ int(Pieces(row)[3].font[1]).raised = "ValueError"
PatternAbsent(row) ==
    HasText(row) /\ (~EpsgPatternPresent(row) \/ ~WktPatternPresent(row))
\* The rows at which the EPSG column (line 133) cannot be computed.
EpsgStops ==
    {k \in 1 .. Len(kml) :
        ~HasText(kml[k]) \/ ~EpsgPatternPresent(kml[k]) \/ EpsgNotNumeric(kml[k])}
BuildAttempted == pc \notin {"start", "grid_read"} /\ halted_at # "start"

\* C9 as stated: once the derived columns have been attempted, a grid source
\* with a row whose description lacks the EPSG or the WKT pattern has ended
\* the run with an IndexError and neither file is written.
C9_ParseFailureRaisesIndexError ==
    (BuildAttempted /\ \E k \in 1 .. Len(kml) : PatternAbsent(kml[k]))
        => /\ pc = "failed"
           /\ error = "IndexError"
           /\ ~grid_file.written
           /\ ~land_file.written

\* C9 as amended: such a source has ended the run at the derived columns,
\* neither file is written and the table still holds every row; the
\* exception is that of the first row at which the EPSG column stops
\* (AttributeError for a missing description, IndexError for a missing
\* pattern, ValueError for a capture int() rejects), and the IndexError of
\* the WKT pattern if the EPSG column stops nowhere.  A table that was built
\* has every row, with the number int() reads in its capture.
C9_ParseFailureTerminal ==
    BuildAttempted =>
        /\ (\E k \in 1 .. Len(kml) : PatternAbsent(kml[k]))
           => /\ pc = "failed"
              /\ halted_at = "grid_read"
              /\ error =
                    IF EpsgStops = {} THEN "IndexError"
                    ELSE LET row == kml[Min(EpsgStops)]
                         IN  IF ~HasText(row) THEN "AttributeError"
                             ELSE IF ~EpsgPatternPresent(row) THEN "IndexError"
                             ELSE "ValueError"
              /\ ~grid_file.written
              /\ ~land_file.written
        /\ Len(gdf) = Len(kml)
        /\ pc # "failed" =>
              \A k \in 1 .. Len(kml) :
                  /\ gdf[k].tile = kml[k].tile
                  /\ gdf[k].epsg = int(Pieces(kml[k])[3].font[1]).value

\* C9 witness: a source of two rows, the first well formed, the second
\* without a match for the EPSG pattern in its third piece; the run failed.
C9_Witness ==
    /\ pc = "failed"
    /\ error = "IndexError"
    /\ Len(kml) = 2
    /\ EpsgPatternPresent(kml[1]) /\ WktPatternPresent(kml[1])
    /\ HasText(kml[2])
    /\ Len(Pieces(kml[2])) >= 3
    /\ ~EpsgPatternPresent(kml[2])

\* C10 (stage ordering): the grid file is written before the land mask is
\* fetched and before the filter runs; the land-filtered file is written
\* only from the filter's result, with the grid file already written; a run
\* that failed in the land stage has the grid file and no land-filtered file.
C10_StageOrdering ==
    /\ pc \in {"grid_saved", "land_read", "land_filtered", "done"}
          => grid_file = Parquet(gdf)
    /\ (land_highres # {} \/ land # <<>> \/ gdf_land # <<>>) => grid_file.written
    /\ land_file.written =>
          (pc = "done" /\ grid_file.written /\ land_file.rows = gdf_land)
    /\ (pc = "failed" /\ halted_at \in {"grid_saved", "land_read"})
          => (grid_file = Parquet(gdf) /\ ~land_file.written)
    /\ (pc = "failed" /\ halted_at \in {"start", "grid_read"})
          => (~grid_file.written /\ ~land_file.written)

\* C10 witness: the download of the land mask failed after a grid of two
\* tiles was saved.
C10_Witness ==
    /\ pc = "failed"
    /\ halted_at = "grid_saved"
    /\ error = "NetworkError"
    /\ grid_file.written
    /\ Len(grid_file.rows) = 2
    /\ ~land_file.written

=============================================================================
